---- MODULE Spec2Model ----
(***************************************************************************)
(* A model of gumo.logging (src/gumo/logging/__init__.py): LoggerContext,  *)
(* GumoLogger and LoggerManager, together with the part of Python's        *)
(* logging module they rest on (the process-wide table of named loggers    *)
(* and their handlers) and the global-logger integration of                *)
(* src/sample/main.py.                                                     *)
(*                                                                         *)
(* Python strings that the code takes apart or puts together (the trace    *)
(* header, the project id, the trace field) are sequences of one-character *)
(* strings.  Timestamps are left out of the payload: they come from the    *)
(* clock and no other part of the code reads them.                         *)
(***************************************************************************)
EXTENDS Integers, Sequences, FiniteSets, TLC

\* ------------------------------------------------------------------ bounds
MaxManagers == 2      \* LoggerManager constructions per process
MaxLoggers == 2       \* GumoLogger instances minted
MaxOuter == 2         \* frames of the caller's code below the facade's
MaxHeaderLen == 3     \* characters of a trace header (SpecParse)

\* --------------------------------------------------------------- constants
DEBUG == 10
INFO == 20
WARNING == 30
ERROR == 40
FATAL == 50
CRITICAL == 50

\* Python's None where a string (a sequence of characters) may stand instead:
\* a one-element sequence no character sequence equals.
None == <<"NoneType">>
\* str(None), as the f-string of _build_trace_and_span renders it
NoneStr == <<"N", "o", "n", "e">>
\* Python's None where a LoggerContext may stand instead (the hook's return)
NoContext == [none |-> TRUE]

Severities == {DEBUG, INFO, WARNING, ERROR, CRITICAL, FATAL}

\* logging.getLevelName on the levels of the facade
getLevelName(level) ==
    CASE level = 10 -> "DEBUG"
      [] level = 20 -> "INFO"
      [] level = 30 -> "WARNING"
      [] level = 40 -> "ERROR"
      [] level = 50 -> "CRITICAL"
      [] OTHER -> "Level"

\* ----------------------------------------------------------------- strings
ProjectsPrefix == <<"p", "r", "o", "j", "e", "c", "t", "s", "/">>
TracesInfix == <<"/", "t", "r", "a", "c", "e", "s", "/">>
UnknownProject ==
    <<"<", "u", "n", "k", "n", "o", "w", "n", "-", "p", "r", "o", "j", "e", "c", "t", ">">>

\* str.find(c) >= 0
Contains(s, c) == \E i \in DOMAIN s : s[i] = c

\* The index of the first c in s, 0 when there is none
RECURSIVE FindFrom(_, _, _)
FindFrom(s, c, i) ==
    IF i > Len(s) THEN 0
    ELSE IF s[i] = c THEN i
    ELSE FindFrom(s, c, i + 1)

\* str.split(sep) with no maxsplit: every sep separates, so a string with k
\* separators gives k + 1 parts
RECURSIVE Split(_, _)
Split(s, sep) ==
    LET i == FindFrom(s, sep, 1)
    IN  IF i = 0 THEN <<s>>
        ELSE <<SubSeq(s, 1, i - 1)>> \o Split(SubSeq(s, i + 1, Len(s)), sep)

\* str(x) inside an f-string, for x a string or None
Format(x) == IF x = None THEN NoneStr ELSE x

\* ------------------------------------------------------------------- state
VARIABLES
    environ,     \* os.environ: GOOGLE_CLOUD_PROJECT and GAE_DEPLOYMENT_ID
    registry,    \* logging's process-wide table: logger name -> logger
    managers,    \* the LoggerManager objects constructed, in order
    loggers,     \* the GumoLogger objects minted, in order
    minted,      \* per GumoLogger: who minted it, from what, and what its hook last gave
    g,           \* per thread: the ambient context the refresh hook returns
    pc,          \* per thread: its position inside a log call (SpecThreads)
    frame,       \* per thread: the locals of its log call in progress (SpecThreads)
    last         \* the outcome of the last operation

vars == <<environ, registry, managers, loggers, minted, g, pc, frame, last>>

Threads == {1, 2}
\* The thread that runs the program when it is single-threaded
MainThread == CHOOSE t \in Threads : \A u \in Threads : t <= u

\* ------------------------------------------------------- Python's logging
\* logging.getLogger(name): the named logger, created on first use with no
\* handler, propagation on and level NOTSET (0)
getLogger_(reg, name) ==
    IF name \in DOMAIN reg THEN reg
    ELSE (name :> [handlers |-> <<>>, propagate |-> TRUE, level |-> 0]) @@ reg

\* Logger.hasHandlers(): the logger's own handlers; its ancestors' are looked
\* at only while propagate is on, and the root logger carries none here
hasHandlers(lg) == Len(lg.handlers) > 0

\* Logger.log(level, line): the streams the line is written to, one per
\* attached handler whose level admits it; with no handler at all logging's
\* last-resort handler writes WARNING and above to stderr
LoggerLog(lg, level) ==
    IF level < lg.level THEN <<>>
    ELSE IF lg.handlers = <<>>
         THEN (IF level >= WARNING THEN <<"stderr">> ELSE <<>>)
         ELSE LET hs == SelectSeq(lg.handlers, LAMBDA h : level >= h.level)
              IN  [i \in 1..Len(hs) |-> hs[i].stream]

\* ----------------------------------------------------------- LoggerManager
\* LoggerManager._build_logger as it would be without the hasHandlers guard
BuildLoggerAlwaysAdds(reg, logger_name, stream, level) ==
    LET handler == [stream |-> stream, level |-> level]
        reg1 == getLogger_(reg, logger_name)
        lg1 == [reg1[logger_name] EXCEPT !.propagate = FALSE, !.level = level]
        lg2 == [lg1 EXCEPT !.handlers = Append(@, handler)]
    IN  [registry |-> [reg1 EXCEPT ![logger_name] = lg2],
         logger |-> logger_name,
         handler |-> handler]

\* LoggerManager._build_logger: the registry after the call, the logger
\* returned (by name) and the handler returned
BuildLogger(reg, logger_name, stream, level) ==
    LET handler == [stream |-> stream, level |-> level]
        reg1 == getLogger_(reg, logger_name)
        lg1 == [reg1[logger_name] EXCEPT !.propagate = FALSE, !.level = level]
        lg2 == IF ~hasHandlers(lg1)
               THEN [lg1 EXCEPT !.handlers = Append(@, handler)]
               ELSE lg1
    IN  [registry |-> [reg1 EXCEPT ![logger_name] = lg2],
         logger |-> logger_name,
         handler |-> handler]

\* LoggerManager.__init__: the manager built from the environment and the
\* hook (TRUE: a function is given), and the registry after its two
\* _build_logger calls
NewManager(reg, env, func) ==
    LET d == BuildLogger(reg, "default_logger", "stdout", DEBUG)
        e == BuildLogger(d.registry, "default_logger", "stderr", DEBUG)
    IN  [registry |-> e.registry,
         manager |->
             [project_id |->
                  IF env.GOOGLE_CLOUD_PROJECT = None
                  THEN UnknownProject ELSE env.GOOGLE_CLOUD_PROJECT,
              fetch_logger_context_func |-> func,
              structured_log_enabled |-> env.GAE_DEPLOYMENT_ID # None,
              default_logger |-> d.logger,
              default_handler |-> d.handler,
              error_logger |-> e.logger,
              error_handler |-> e.handler]]

\* LoggerManager(fetch_logger_context_func=func)
Construct(func) ==
    /\ Len(managers) < MaxManagers
    /\ \A u \in Threads : pc[u] = "idle"
    /\ LET r == NewManager(registry, environ, func)
       IN  /\ registry' = r.registry
           /\ managers' = Append(managers, r.manager)
           /\ last' = [op |-> "construct", manager |-> Len(managers) + 1]
    /\ UNCHANGED <<environ, loggers, minted, g, pc, frame>>

\* LoggerManager._build_trace_and_span: (trace, span_id), or the ValueError
\* of unpacking a split that did not give two parts
BuildTraceAndSpan(project_id, trace_header) ==
    IF trace_header = None
    THEN [raised |-> FALSE, trace |-> None, span_id |-> None]
    ELSE LET found == Contains(trace_header, "/")
             parts == Split(trace_header, "/")
         IN  IF found /\ Len(parts) # 2
             THEN [raised |-> TRUE, trace |-> None, span_id |-> None]
             ELSE LET trace_id == IF found THEN parts[1] ELSE None
                      raw_span == IF found THEN parts[2] ELSE None
                      span_id == IF found /\ Contains(raw_span, ";")
                                 THEN Split(raw_span, ";")[1]
                                 ELSE raw_span
                  IN  [raised |-> FALSE,
                       trace |-> ProjectsPrefix \o project_id \o TracesInfix
                                     \o Format(trace_id),
                       span_id |-> span_id]

\* The LoggerContext getLoggerContext constructs from (trace, span_id)
LoggerContext(trace, span_id) == [trace |-> trace, span_id |-> span_id]

\* LoggerManager.getLoggerContext(trace_header) on manager m
GetLoggerContext(m, trace_header) ==
    /\ m \in DOMAIN managers
    /\ LET r == BuildTraceAndSpan(managers[m].project_id, trace_header)
       IN  last' = [op |-> "getLoggerContext", manager |-> m,
                    trace_header |-> trace_header, raised |-> r.raised,
                    context |-> IF r.raised THEN NoContext
                                ELSE LoggerContext(r.trace, r.span_id)]
    /\ UNCHANGED <<environ, registry, managers, loggers, minted, g, pc, frame>>

\* GumoLogger.__init__ as getLogger calls it: the fields of the new logger
NewLogger(manager, logger_context) ==
    [project_id |-> manager.project_id,
     default_logger |-> manager.default_logger,
     error_logger |-> manager.error_logger,
     logger_context |-> logger_context,
     structured_log_enabled |-> manager.structured_log_enabled,
     fetch_logger_context_func |-> manager.fetch_logger_context_func]

\* For the record: which manager minted a logger, from which header, with
\* which context, and what its hook gave most recently that was not None
MintRecord(m, trace_header, logger_context) ==
    [manager |-> m, trace_header |-> trace_header,
     logger_context |-> logger_context, hook_returned |-> NoContext]

\* LoggerManager.getLogger(trace_header) on manager m: a GumoLogger bound to
\* the parsed context and to the manager's sinks, mode flag and hook
GetLogger(m, trace_header) ==
    /\ m \in DOMAIN managers
    /\ Len(loggers) < MaxLoggers
    /\ \A u \in Threads : pc[u] = "idle"
    /\ LET r == BuildTraceAndSpan(managers[m].project_id, trace_header)
           context == LoggerContext(r.trace, r.span_id)
       IN  IF r.raised
           THEN /\ last' = [op |-> "getLogger", manager |-> m,
                            trace_header |-> trace_header, raised |-> TRUE]
                /\ UNCHANGED <<loggers, minted>>
           ELSE /\ loggers' = Append(loggers, NewLogger(managers[m], context))
                /\ minted' = Append(minted, MintRecord(m, trace_header, context))
                /\ last' = [op |-> "getLogger", manager |-> m,
                            trace_header |-> trace_header, raised |-> FALSE]
    /\ UNCHANGED <<environ, registry, managers, g, pc, frame>>

\* on_before_request of the sample: the request's thread stores the context
\* parsed from the request's header where the hook will find it; a header
\* that makes getLoggerContext raise leaves it as it was
BeforeRequest(t, m, trace_header) ==
    /\ m \in DOMAIN managers
    /\ pc[t] = "idle"
    /\ LET r == BuildTraceAndSpan(managers[m].project_id, trace_header)
       IN  /\ g' = IF r.raised THEN g
                   ELSE [g EXCEPT ![t] = LoggerContext(r.trace, r.span_id)]
           /\ last' = [op |-> "beforeRequest", thread |-> t,
                       trace_header |-> trace_header, raised |-> r.raised]
    /\ UNCHANGED <<environ, registry, managers, loggers, minted, pc, frame>>

\* The end of a request: the hook has no context to give until the next one
EndRequest(t) ==
    /\ pc[t] = "idle"
    /\ g[t] # NoContext
    /\ g' = [g EXCEPT ![t] = NoContext]
    /\ last' = [op |-> "endRequest", thread |-> t]
    /\ UNCHANGED <<environ, registry, managers, loggers, minted, pc, frame>>

\* -------------------------------------------------------------- GumoLogger
Entries == {"debug", "info", "warning", "error", "exception", "critical", "fatal", "log"}

\* The level each entry point passes to _log; log passes its own argument
EntryLevel(entry, level) ==
    CASE entry = "debug" -> DEBUG
      [] entry = "info" -> INFO
      [] entry = "warning" -> WARNING
      [] entry = "error" -> ERROR
      [] entry = "exception" -> ERROR
      [] entry = "critical" -> CRITICAL
      [] entry = "fatal" -> FATAL
      [] OTHER -> level

\* The calls a caller can make: an entry point and, for log, a level
Calls ==
    {[entry |-> e, level |-> EntryLevel(e, DEBUG)] : e \in Entries \ {"log"}}
        \cup {[entry |-> "log", level |-> lv] : lv \in Severities}

\* A frame of the facade: its receiver is the GumoLogger
FacadeFrame(function, lineno) ==
    [self_is_logger |-> TRUE, filename |-> "gumo/logging/__init__.py",
     lineno |-> lineno, function |-> function]

\* The frames of an entry point down to _find_caller's inspect.stack(),
\* innermost first: exception reaches _log through error
FacadeFrames(entry) ==
    <<FacadeFrame("_find_caller", 149), FacadeFrame("_build_log_payload", 73),
      FacadeFrame("_log", 115)>>
    \o (CASE entry = "debug" -> <<FacadeFrame("debug", 122)>>
          [] entry = "info" -> <<FacadeFrame("info", 125)>>
          [] entry = "warning" -> <<FacadeFrame("warning", 128)>>
          [] entry = "error" -> <<FacadeFrame("error", 131)>>
          [] entry = "exception" ->
                 <<FacadeFrame("error", 131), FacadeFrame("exception", 134)>>
          [] entry = "critical" -> <<FacadeFrame("critical", 137)>>
          [] entry = "fatal" -> <<FacadeFrame("fatal", 140)>>
          [] OTHER -> <<FacadeFrame("log", 143)>>)

\* The frames of the code that called the entry point, innermost first: each
\* either has a GumoLogger as its self or not
OuterStacks ==
    UNION {{[i \in 1..n |->
                [self_is_logger |-> bs[i], filename |-> "app.py",
                 lineno |-> i, function |-> "caller"]] :
            bs \in [1..n -> BOOLEAN]} : n \in 0..MaxOuter}

\* GumoLogger._find_caller with a fixed skip of the frames of one wrapper
\* instead of the walk
FindCallerFixedSkip(stack) ==
    IF Len(stack) < 5 THEN <<>>
    ELSE <<[file |-> stack[5].filename, line |-> stack[5].lineno,
            function |-> stack[5].function]>>

\* The loop of _find_caller from frame i on: the index of caller_stack, 0
\* for None
RECURSIVE FindCallerFrom(_, _, _)
FindCallerFrom(stack, i, callee_is_custom_logger) ==
    IF i > Len(stack) THEN 0
    ELSE IF stack[i].self_is_logger THEN FindCallerFrom(stack, i + 1, TRUE)
    ELSE IF callee_is_custom_logger THEN i
    ELSE FindCallerFrom(stack, i + 1, callee_is_custom_logger)

\* GumoLogger._find_caller: <<>> for None, else the one location
FindCaller(stack) ==
    LET k == FindCallerFrom(stack, 1, FALSE)
    IN  IF k = 0 THEN <<>>
        ELSE <<[file |-> stack[k].filename, line |-> stack[k].lineno,
                function |-> stack[k].function]>>

\* The dict j as _build_log_payload first makes it, for a plain message
PayloadBase(level, msg) ==
    ("Message" :> msg) @@ ("severity" :> getLevelName(level))

\* The end of _build_log_payload: the source location, when there is one
WithCaller(j, stack) ==
    LET caller == FindCaller(stack)
    IN  IF caller # <<>>
        THEN ("logging.googleapis.com/sourceLocation" :> caller[1]) @@ j
        ELSE j

\* GumoLogger._build_log_payload with the trace and span keys set whatever
\* the context holds
BuildLogPayloadAlwaysTags(context, level, msg, stack) ==
    WithCaller(("logging.googleapis.com/trace" :> context.trace)
               @@ ("logging.googleapis.com/spanId" :> context.span_id)
               @@ PayloadBase(level, msg), stack)

\* GumoLogger._build_log_payload, run with no other thread in between: the
\* dict j, whose optional keys are in its domain only when set
BuildLogPayload(context, level, msg, stack) ==
    WithCaller((IF context.trace # None
                THEN "logging.googleapis.com/trace" :> context.trace
                ELSE <<>>)
               @@ (IF context.span_id # None
                   THEN "logging.googleapis.com/spanId" :> context.span_id
                   ELSE <<>>)
               @@ PayloadBase(level, msg), stack)

\* GumoLogger._formatter: the JSON of the dict, or the text line made of its
\* severity, source location (none: '<unknown>' and '-') and message
Formatter(structured_log_enabled, d) ==
    IF structured_log_enabled
    THEN [format |-> "json", d |-> d]
    ELSE [format |-> "text",
          d |-> [severity |-> d["severity"],
                 location |->
                     IF "logging.googleapis.com/sourceLocation" \in DOMAIN d
                     THEN <<[file |-> d["logging.googleapis.com/sourceLocation"].file,
                             line |-> d["logging.googleapis.com/sourceLocation"].line]>>
                     ELSE <<>>,
                 message |-> d["Message"]]]

\* How often _fetch_logger_context calls the hook
HookCalls(logger) == IF logger.fetch_logger_context_func THEN 1 ELSE 0

\* GumoLogger._fetch_logger_context without its last line: the hook is
\* called and its return dropped
FetchLoggerContextDropsReturn(logger, hook_return) ==
    logger.logger_context

\* GumoLogger._fetch_logger_context: the context bound after it, given what
\* the hook returns when called
FetchLoggerContext(logger, hook_return) ==
    IF ~logger.fetch_logger_context_func THEN logger.logger_context
    ELSE IF hook_return = NoContext THEN logger.logger_context
    ELSE hook_return

\* The assignment of _fetch_logger_context landing in every GumoLogger, as
\* it would if the context were kept in state the loggers share
RebindAll(all, l, context) ==
    [k \in DOMAIN all |-> [all[k] EXCEPT !.logger_context = context]]

\* self._logger_context = context: GumoLogger l is rebound, no other
Rebind(all, l, context) ==
    [all EXCEPT ![l].logger_context = context]

\* The sink _log hands the line to
Route(logger, level) ==
    IF level >= ERROR THEN logger.error_logger ELSE logger.default_logger

\* What the hook gave most recently that was not None, for the record
NoteHook(m, logger, hook_return) ==
    IF logger.fetch_logger_context_func /\ hook_return # NoContext
    THEN [m EXCEPT !.hook_returned = hook_return]
    ELSE m

\* One call of an entry point of GumoLogger l by thread t, run to its end
\* with no other thread in between
Log(t, l, call, msg, outer) ==
    /\ l \in DOMAIN loggers
    /\ \A u \in Threads : pc[u] = "idle"
    /\ LET before == loggers[l]
           level == call.level
           bound == Rebind(loggers, l, FetchLoggerContext(before, g[t]))
           after == bound[l]
           stack == FacadeFrames(call.entry) \o outer
           payload == BuildLogPayload(after.logger_context, level, msg, stack)
           sink == Route(after, level)
       IN  /\ loggers' = bound
           /\ minted' = [minted EXCEPT ![l] = NoteHook(@, before, g[t])]
           /\ last' = [op |-> "log", thread |-> t, logger |-> l,
                       entry |-> call.entry, level |-> level,
                       hook_calls |-> HookCalls(before), hook_return |-> g[t],
                       before |-> before, stack |-> stack,
                       payload |-> payload,
                       line |-> Formatter(after.structured_log_enabled, payload),
                       sink |-> sink,
                       written |-> LoggerLog(registry[sink], level)]
    /\ UNCHANGED <<environ, registry, managers, g, pc, frame>>

\* The locals of a thread that is in no log call
NoFrame == [active |-> FALSE]

\* The same call taken apart into the steps between which another thread
\* can run.  _log, line 113: the hook is called and the logger rebound
LogFetch(t, l, call, msg, outer) ==
    /\ l \in DOMAIN loggers
    /\ pc[t] = "idle"
    /\ loggers' = Rebind(loggers, l, FetchLoggerContext(loggers[l], g[t]))
    /\ minted' = [minted EXCEPT ![l] = NoteHook(@, loggers[l], g[t])]
    /\ frame' = [frame EXCEPT ![t] =
                     [active |-> TRUE, logger |-> l, entry |-> call.entry,
                      level |-> call.level, hook_return |-> g[t],
                      stack |-> FacadeFrames(call.entry) \o outer,
                      j |-> PayloadBase(call.level, msg), test |-> FALSE]]
    /\ pc' = [pc EXCEPT ![t] = "check_trace"]
    /\ UNCHANGED <<environ, registry, managers, g, last>>

\* _build_log_payload, line 68: self._logger_context.trace is not None
LogCheckTrace(t) ==
    /\ pc[t] = "check_trace"
    /\ frame' = [frame EXCEPT ![t].test =
                     loggers[frame[t].logger].logger_context.trace # None]
    /\ pc' = [pc EXCEPT ![t] = "set_trace"]
    /\ UNCHANGED <<environ, registry, managers, loggers, minted, g, last>>

\* line 69: the trace is read again and stored
LogSetTrace(t) ==
    /\ pc[t] = "set_trace"
    /\ frame' = [frame EXCEPT ![t].j =
                     IF frame[t].test
                     THEN ("logging.googleapis.com/trace" :>
                               loggers[frame[t].logger].logger_context.trace) @@ @
                     ELSE @]
    /\ pc' = [pc EXCEPT ![t] = "check_span"]
    /\ UNCHANGED <<environ, registry, managers, loggers, minted, g, last>>

\* line 70: self._logger_context.span_id is not None
LogCheckSpan(t) ==
    /\ pc[t] = "check_span"
    /\ frame' = [frame EXCEPT ![t].test =
                     loggers[frame[t].logger].logger_context.span_id # None]
    /\ pc' = [pc EXCEPT ![t] = "set_span"]
    /\ UNCHANGED <<environ, registry, managers, loggers, minted, g, last>>

\* line 71: the span id is read again and stored
LogSetSpan(t) ==
    /\ pc[t] = "set_span"
    /\ frame' = [frame EXCEPT ![t].j =
                     IF frame[t].test
                     THEN ("logging.googleapis.com/spanId" :>
                               loggers[frame[t].logger].logger_context.span_id) @@ @
                     ELSE @]
    /\ pc' = [pc EXCEPT ![t] = "emit"]
    /\ UNCHANGED <<environ, registry, managers, loggers, minted, g, last>>

\* lines 73-77 and 116-119: the caller is resolved, the line formatted and
\* handed to the sink
LogEmit(t) ==
    /\ pc[t] = "emit"
    /\ LET f == frame[t]
           logger == loggers[f.logger]
           payload == WithCaller(f.j, f.stack)
           sink == Route(logger, f.level)
       IN  last' = [op |-> "log", thread |-> t, logger |-> f.logger,
                    entry |-> f.entry, level |-> f.level,
                    hook_return |-> f.hook_return, stack |-> f.stack,
                    payload |-> payload,
                    line |-> Formatter(logger.structured_log_enabled, payload),
                    sink |-> sink,
                    written |-> LoggerLog(registry[sink], f.level)]
    /\ frame' = [frame EXCEPT ![t] = NoFrame]
    /\ pc' = [pc EXCEPT ![t] = "idle"]
    /\ UNCHANGED <<environ, registry, managers, loggers, minted, g>>

\* ----------------------------------------------------------- the programs
Msgs == {<<"h", "i">>}

\* The process runs on the platform, which sets both variables, or off it
Environments ==
    {[GOOGLE_CLOUD_PROJECT |-> None, GAE_DEPLOYMENT_ID |-> None],
     [GOOGLE_CLOUD_PROJECT |-> <<"m", "y">>, GAE_DEPLOYMENT_ID |-> <<"1">>]}

\* No header, one without '/', one with a span and options, one with two '/'
SampleHeaders ==
    {None, <<"a">>, <<"a", "/", "b", ";", "o">>, <<"a", "/", "/">>}

\* Every header of at most MaxHeaderLen characters, and no header
HeaderChars == {"a", "b", "/", ";"}
AllHeaders ==
    {None} \cup UNION {[1..n -> HeaderChars] : n \in 0..MaxHeaderLen}

\* A frame of the application, whose self (if any) is no GumoLogger
AppFrame ==
    [self_is_logger |-> FALSE, filename |-> "app.py", lineno |-> 1,
     function |-> "caller"]

\* Nothing constructed yet
Init ==
    /\ environ \in Environments
    /\ registry = <<>>
    /\ managers = <<>>
    /\ loggers = <<>>
    /\ minted = <<>>
    /\ g = [t \in Threads |-> NoContext]
    /\ pc = [t \in Threads |-> "idle"]
    /\ frame = [t \in Threads |-> NoFrame]
    /\ last = [op |-> "start"]

\* After logger_manager = LoggerManager(...), with or without a hook
InitManager ==
    /\ environ \in Environments
    /\ \E func \in BOOLEAN :
           LET r == NewManager(<<>>, environ, func)
           IN  registry = r.registry /\ managers = <<r.manager>>
    /\ loggers = <<>>
    /\ minted = <<>>
    /\ g = [t \in Threads |-> NoContext]
    /\ pc = [t \in Threads |-> "idle"]
    /\ frame = [t \in Threads |-> NoFrame]
    /\ last = [op |-> "start"]

\* After logger_manager = LoggerManager(...) and
\* logger = logger_manager.getLogger(header), for a header it accepts
InitLogger ==
    /\ environ \in Environments
    /\ \E func \in BOOLEAN, h \in SampleHeaders :
           LET r == NewManager(<<>>, environ, func)
               c == BuildTraceAndSpan(r.manager.project_id, h)
               context == LoggerContext(c.trace, c.span_id)
           IN  /\ ~c.raised
               /\ registry = r.registry
               /\ managers = <<r.manager>>
               /\ loggers = <<NewLogger(r.manager, context)>>
               /\ minted = <<MintRecord(1, h, context)>>
    /\ g = [t \in Threads |-> NoContext]
    /\ pc = [t \in Threads |-> "idle"]
    /\ frame = [t \in Threads |-> NoFrame]
    /\ last = [op |-> "start"]

\* After the same, with a header to parse at hand
InitParse ==
    /\ environ \in Environments
    /\ LET r == NewManager(<<>>, environ, FALSE)
       IN  registry = r.registry /\ managers = <<r.manager>>
    /\ loggers = <<>>
    /\ minted = <<>>
    /\ g = [t \in Threads |-> NoContext]
    /\ pc = [t \in Threads |-> "idle"]
    /\ frame = [t \in Threads |-> NoFrame]
    /\ \E h \in AllHeaders : last = [op |-> "request", trace_header |-> h]

\* The sample's module state: logger_manager = LoggerManager(hook) and the
\* global logger = logger_manager.getLogger()
InitSample ==
    /\ environ \in Environments
    /\ LET r == NewManager(<<>>, environ, TRUE)
           c == BuildTraceAndSpan(r.manager.project_id, None)
           context == LoggerContext(c.trace, c.span_id)
       IN  /\ registry = r.registry
           /\ managers = <<r.manager>>
           /\ loggers = <<NewLogger(r.manager, context)>>
           /\ minted = <<MintRecord(1, None, context)>>
    /\ g = [t \in Threads |-> NoContext]
    /\ pc = [t \in Threads |-> "idle"]
    /\ frame = [t \in Threads |-> NoFrame]
    /\ last = [op |-> "start"]

\* Managers constructed, loggers minted, and every entry point called at
\* every severity: the sinks and the routing
NextSinks ==
    \/ \E func \in BOOLEAN : Construct(func)
    \/ \E m \in DOMAIN managers : GetLogger(m, None)
    \/ \E l \in DOMAIN loggers, call \in Calls, msg \in Msgs :
           Log(MainThread, l, call, msg, <<AppFrame>>)

SpecSinks == Init /\ [][NextSinks]_vars

\* One logger, every entry point at every severity, called from the
\* application or from nowhere, between requests that change what the hook
\* returns
NextLogger ==
    \/ \E h \in SampleHeaders : BeforeRequest(MainThread, 1, h)
    \/ EndRequest(MainThread)
    \/ \E call \in Calls, msg \in Msgs, outer \in {<<>>, <<AppFrame>>} :
           Log(MainThread, 1, call, msg, outer)

SpecLogger == InitLogger /\ [][NextLogger]_vars

\* Several loggers of one manager, logging between requests
NextLoggers ==
    \/ \E h \in SampleHeaders : GetLogger(1, h)
    \/ \E h \in SampleHeaders : BeforeRequest(MainThread, 1, h)
    \/ EndRequest(MainThread)
    \/ \E l \in DOMAIN loggers, entry \in {"info", "exception"}, msg \in Msgs :
           Log(MainThread, l, [entry |-> entry, level |-> EntryLevel(entry, DEBUG)],
               msg, <<AppFrame>>)

SpecLoggers == InitManager /\ [][NextLoggers]_vars

\* One logger called through every entry point from every stack
NextCaller ==
    \E call \in Calls, msg \in Msgs, outer \in OuterStacks :
        Log(MainThread, 1, call, msg, outer)

SpecCaller == InitLogger /\ [][NextCaller]_vars

\* getLoggerContext applied to the header at hand
NextParse ==
    /\ last.op = "request"
    /\ GetLoggerContext(1, last.trace_header)

SpecParse == InitParse /\ [][NextParse]_vars

\* The sample served by two threads: each serves requests, and within a
\* request logs through the global logger, whose hook returns the context
\* of the request the calling thread serves
NextThreads ==
    \E t \in Threads :
        \/ \E h \in SampleHeaders : g[t] = NoContext /\ BeforeRequest(t, 1, h)
        \/ EndRequest(t)
        \/ \E msg \in Msgs :
               /\ g[t] # NoContext
               /\ LogFetch(t, 1, [entry |-> "info", level |-> INFO], msg, <<AppFrame>>)
        \/ LogCheckTrace(t)
        \/ LogSetTrace(t)
        \/ LogCheckSpan(t)
        \/ LogSetSpan(t)
        \/ LogEmit(t)

SpecThreads == InitSample /\ [][NextThreads]_vars

\* ------------------------------------------------------------- properties
TraceKey == "logging.googleapis.com/trace"
SpanKey == "logging.googleapis.com/spanId"
LocationKey == "logging.googleapis.com/sourceLocation"

\* The payload p carries exactly the trace and span of context c: each key
\* is present if and only if c's value is not None, and then with that value
TagsOf(p, c) ==
    /\ (TraceKey \in DOMAIN p) <=> (c.trace # None)
    /\ (TraceKey \in DOMAIN p) => (p[TraceKey] = c.trace)
    /\ (SpanKey \in DOMAIN p) <=> (c.span_id # None)
    /\ (SpanKey \in DOMAIN p) => (p[SpanKey] = c.span_id)

\* The text of s before its first c (all of s when there is none), and after
BeforeFirst(s, c) ==
    IF Contains(s, c) THEN SubSeq(s, 1, FindFrom(s, c, 1) - 1) ELSE s
AfterFirst(s, c) == SubSeq(s, FindFrom(s, c, 1) + 1, Len(s))

\* C1: the normal and the error sink of a manager are two sinks, the normal
\* one with one handler on stdout and the error one with one handler on
\* stderr, and a record logged at ERROR or above is written to stderr only,
\* one below ERROR to stdout only.
C1_TwoSinksTwoStreams ==
    /\ \A m \in DOMAIN managers :
           /\ managers[m].default_logger # managers[m].error_logger
           /\ registry[managers[m].default_logger].handlers
                  = <<managers[m].default_handler>>
           /\ registry[managers[m].error_logger].handlers
                  = <<managers[m].error_handler>>
           /\ managers[m].default_handler.stream = "stdout"
           /\ managers[m].error_handler.stream = "stderr"
    /\ last.op = "log" =>
           last.written = IF last.level >= ERROR THEN <<"stderr">> ELSE <<"stdout">>

\* C2: at every severity and through every entry point, the logger's error
\* sink receives the line if and only if the level is ERROR or above, and its
\* normal sink if and only if the level is below ERROR.
C2_RoutedBySeverity ==
    (last.op = "log" /\ last.level \in Severities /\ last.entry \in Entries) =>
        LET logger == loggers[last.logger]
            received == {last.sink}
        IN  /\ (logger.error_logger \in received) <=> (last.level >= ERROR)
            /\ (logger.default_logger \in received) <=> (last.level < ERROR)

\* C3: getLoggerContext of a header that is not None and holds no '/'
\* returns a context whose trace and span_id are both None.
C3_NoSlashGivesNullContext ==
    (/\ last.op = "getLoggerContext"
     /\ last.trace_header # None
     /\ ~Contains(last.trace_header, "/")) =>
        /\ ~last.raised
        /\ last.context.trace = None
        /\ last.context.span_id = None

\* C4: getLoggerContext of a header with at least one '/' does not raise and
\* returns trace 'projects/<project_id>/traces/<text before the first /'>' and
\* as span_id the text after the first '/', cut at its first ';'.
C4_SlashHeaderParsed ==
    (/\ last.op = "getLoggerContext"
     /\ last.trace_header # None
     /\ Contains(last.trace_header, "/")) =>
        /\ ~last.raised
        /\ last.context.trace =
               ProjectsPrefix \o managers[last.manager].project_id \o TracesInfix
                   \o BeforeFirst(last.trace_header, "/")
        /\ last.context.span_id =
               BeforeFirst(AfterFirst(last.trace_header, "/"), ";")

\* C5: however many managers were constructed, every registered sink has at
\* most one handler, and a log call writes its line at most once.
C5_AtMostOneHandler ==
    /\ \A n \in DOMAIN registry : Len(registry[n].handlers) <= 1
    /\ last.op = "log" => Len(last.written) <= 1

\* C5's case: a log call after a second manager was constructed
C5_Witness ==
    /\ Len(managers) >= 2
    /\ last.op = "log"
    /\ Len(last.written) = 1

\* C6: the record of a log call has the trace key if and only if the context
\* bound after the call's refresh has a trace, with that value; the same for
\* the span id; and it has the source location only if the stack has a frame
\* outside the facade for caller resolution to return.
C6_TagsFollowContext ==
    last.op = "log" =>
        /\ TagsOf(last.payload, loggers[last.logger].logger_context)
        /\ (LocationKey \in DOMAIN last.payload) =>
               \E i \in DOMAIN last.stack : ~last.stack[i].self_is_logger

\* C6's case: the hook rebound the logger to a context with a trace and no
\* span id, and the call came from no frame outside the facade
C6_Witness ==
    /\ last.op = "log"
    /\ loggers[last.logger].logger_context # last.before.logger_context
    /\ TraceKey \in DOMAIN last.payload
    /\ SpanKey \notin DOMAIN last.payload
    /\ LocationKey \notin DOMAIN last.payload

\* C7: on a stack that starts inside the facade, caller resolution returns
\* the first frame outward that is not the facade's, whatever the number of
\* wrapper frames; the record has no source location if and only if every
\* frame is the facade's.
C7_CallerIsFirstOutsideFrame ==
    (last.op = "log" /\ last.stack[1].self_is_logger) =>
        LET s == last.stack
            outside == {i \in DOMAIN s : ~s[i].self_is_logger}
        IN  IF outside = {}
            THEN LocationKey \notin DOMAIN last.payload
            ELSE LET k == CHOOSE i \in outside : \A j \in outside : i <= j
                 IN  /\ LocationKey \in DOMAIN last.payload
                     /\ last.payload[LocationKey] =
                            [file |-> s[k].filename, line |-> s[k].lineno,
                             function |-> s[k].function]

\* C7's case: exception (two wrapper frames) called from a method of a
\* GumoLogger subclass, itself called from the application
C7_Witness ==
    /\ last.op = "log"
    /\ last.entry = "exception"
    /\ Len(last.stack) = 7
    /\ last.stack[6].self_is_logger
    /\ ~last.stack[7].self_is_logger
    /\ LocationKey \in DOMAIN last.payload
    /\ last.payload[LocationKey].line = 2

\* C8: a log call on one logger leaves every other logger as it was, leaves
\* the contexts held elsewhere (the ambient ones, the mint-time ones) as they
\* were, and binds its own logger to a whole context: the one it had or the
\* one the hook returned.
C8_OtherLoggersUntouched ==
    [][last'.op = "log" =>
          /\ \A k \in DOMAIN loggers : k # last'.logger => loggers'[k] = loggers[k]
          /\ DOMAIN loggers' = DOMAIN loggers
          /\ g' = g
          /\ \A k \in DOMAIN minted :
                 minted'[k].logger_context = minted[k].logger_context
          /\ loggers'[last'.logger].logger_context
                 \in {loggers[last'.logger].logger_context, g[last'.thread]}]_vars

\* C8's case: two loggers of one manager minted from different headers, the
\* first just rebound by its log call, the second still on its own context
C8_Witness ==
    /\ Len(loggers) >= 2
    /\ minted[1].manager = minted[2].manager
    /\ minted[1].trace_header # minted[2].trace_header
    /\ last.op = "log"
    /\ last.logger = 1
    /\ loggers[1].logger_context # last.before.logger_context
    /\ loggers[2].logger_context = minted[2].logger_context
    /\ loggers[2].logger_context # loggers[1].logger_context

\* C9: a log call on a logger with a hook calls it once; the context bound
\* after the call is the hook's return when that is not None and the context
\* bound before otherwise; the record is built from the context bound after;
\* no other field of the logger changes; and so every logger is bound to the
\* most recent context its hook returned, or to its mint-time context when
\* there was none.
C9_HookRefreshesContext ==
    /\ last.op = "log" =>
           LET b == last.before
               now == loggers[last.logger]
               expected == IF b.fetch_logger_context_func /\ last.hook_return # NoContext
                           THEN last.hook_return ELSE b.logger_context
           IN  /\ last.hook_calls = IF b.fetch_logger_context_func THEN 1 ELSE 0
               /\ now.logger_context = expected
               /\ TagsOf(last.payload, expected)
               /\ now = [b EXCEPT !.logger_context = now.logger_context]
    /\ \A l \in DOMAIN loggers :
           loggers[l].logger_context =
               IF minted[l].hook_returned # NoContext
               THEN minted[l].hook_returned ELSE minted[l].logger_context

\* C9's case: the hook returned None in a call after one in which it had
\* returned a context, and the logger is still bound to that context
C9_Witness ==
    /\ last.op = "log"
    /\ last.before.fetch_logger_context_func
    /\ last.hook_return = NoContext
    /\ minted[last.logger].hook_returned # NoContext
    /\ minted[last.logger].hook_returned # minted[last.logger].logger_context
    /\ loggers[last.logger].logger_context = minted[last.logger].hook_returned

\* C10: with the global logger shared by two threads, every record carries
\* the trace and span of the request the thread that logged it is serving.
C10_RecordCarriesOwnRequest ==
    last.op = "log" => TagsOf(last.payload, g[last.thread])

====
